---- MODULE Spec2Model ----
(***************************************************************************)
(* patito/polars.py: the model-aware DataFrame / LazyFrame.                *)
(*                                                                         *)
(* A frame is a sequence of columns [name, dtype, vals]; a cell is a       *)
(* record tagged null / int / str / list.  The transformations derive(),   *)
(* unalias() and cast() are operators computed the way the Python code     *)
(* computes them; the actions apply them to the current frame.  The class  *)
(* of the table object (DataFrame or LazyFrame, with or without a model    *)
(* attribute) is the variable table.                                       *)
(***************************************************************************)
EXTENDS Integers, Sequences, FiniteSets, TLC

VARIABLES model, hashOrder, frame, last, table

vars == <<model, hashOrder, frame, last, table>>

(***************************************************************************)
(* Bounds                                                                  *)
(***************************************************************************)
NRows == 2            \* rows of every frame
MaxReq == 2           \* longest `columns` list handed to derive() / cast()
RecursionLimit == 5   \* deepest nesting of _derive_column calls the interpreter allows
MaxInt == 60          \* largest integer a string cell is parsed to

(***************************************************************************)
(* Cells and columns                                                       *)
(***************************************************************************)
Null == [t |-> "null", i |-> 0, s |-> "", l |-> <<>>]

IntV(n) == [t |-> "int", i |-> n, s |-> "", l |-> <<>>]

StrV(x) == [t |-> "str", i |-> 0, s |-> x, l |-> <<>>]

ListV(q) == [t |-> "list", i |-> 0, s |-> "", l |-> q]

ErrV == [t |-> "err", i |-> 0, s |-> "", l |-> <<>>]

Column(name, dtype, vals) == [name |-> name, dtype |-> dtype, vals |-> vals]

Range(q) == {q[i] : i \in DOMAIN q}

Perms(S) == {q \in [1..Cardinality(S) -> S] : \A i, j \in DOMAIN q : i # j => q[i] # q[j]}

\* All sequences of distinct elements of S, of length at most n.
DistinctSeqs(S, n) ==
    UNION {{q \in [1..k -> S] : \A i, j \in 1..k : i # j => q[i] # q[j]} : k \in 0..n}

Rows == 1..NRows

columns_of(cols) == [i \in DOMAIN cols |-> cols[i].name]

HasCol(cols, name) == \E i \in DOMAIN cols : cols[i].name = name

ColAt(cols, name) == cols[CHOOSE i \in DOMAIN cols : cols[i].name = name]

NumericDtypes == {"Int64", "UInt16"}

(***************************************************************************)
(* polars: casting a value.  Strict casts: a value the target dtype cannot *)
(* hold is an error of the whole operation.                                *)
(***************************************************************************)
ParseInt(s) ==
    IF \E n \in (-MaxInt)..MaxInt : ToString(n) = s
    THEN IntV(CHOOSE n \in (-MaxInt)..MaxInt : ToString(n) = s)
    ELSE ErrV

CastInt(n, dtype) ==
    IF dtype = "UInt16" THEN (IF n >= 0 /\ n < 65536 THEN IntV(n) ELSE ErrV)
    ELSE IntV(n)

CastVal(v, dtype) ==
    IF v.t = "null" THEN Null
    ELSE IF v.t = "list" \/ v.t = "err" THEN ErrV
    ELSE IF dtype = "String"
         THEN (IF v.t = "int" THEN StrV(ToString(v.i)) ELSE v)
    ELSE IF dtype \in NumericDtypes
         THEN (IF v.t = "int" THEN CastInt(v.i, dtype)
               ELSE LET p == ParseInt(v.s) IN IF p = ErrV THEN ErrV ELSE CastInt(p.i, dtype))
    ELSE ErrV

(***************************************************************************)
(* polars: expressions.  An evaluated expression is [err, dtype, vals].    *)
(***************************************************************************)
ExprOk(dtype, vals) == [err |-> "none", dtype |-> dtype, vals |-> vals]

ExprErr(e) == [err |-> e, dtype |-> "", vals |-> <<>>]

\* pl.col(name)
pl_col(cols, name) ==
    IF HasCol(cols, name)
    THEN ExprOk(ColAt(cols, name).dtype, ColAt(cols, name).vals)
    ELSE ExprErr("ColumnNotFoundError")

\* expr.cast(dtype)
pl_cast(e, dtype) ==
    IF e.err # "none" THEN e
    ELSE LET v == [i \in DOMAIN e.vals |-> CastVal(e.vals[i], dtype)]
         IN IF \E i \in DOMAIN v : v[i] = ErrV
            THEN ExprErr("InvalidOperationError")
            ELSE ExprOk(dtype, v)

RECURSIVE SumRow(_, _, _)
SumRow(cols, roots, i) ==
    IF roots = <<>> THEN 0
    ELSE ColAt(cols, Head(roots)).vals[i].i + SumRow(cols, Tail(roots), i)

\* A derived_from expression k * (sum of its root columns); with no root
\* column it is the literal k.
pl_eval(cols, derived_from) ==
    LET roots == derived_from.roots IN
    IF \E j \in DOMAIN roots : ~HasCol(cols, roots[j]) THEN ExprErr("ColumnNotFoundError")
    ELSE IF \E j \in DOMAIN roots : ColAt(cols, roots[j]).dtype \notin NumericDtypes
         THEN ExprErr("InvalidOperationError")
    ELSE ExprOk("Int64",
            [i \in Rows |->
                IF roots = <<>> THEN IntV(derived_from.k)
                ELSE IF \E j \in DOMAIN roots : ColAt(cols, roots[j]).vals[i].t = "null"
                     THEN Null
                     ELSE IntV(derived_from.k * SumRow(cols, roots, i))])

(***************************************************************************)
(* polars: a lazy frame is [cols, err]; an error of a step surfaces when   *)
(* the frame is collected.                                                 *)
(***************************************************************************)
LF(cols) == [cols |-> cols, err |-> "none"]

\* df.with_columns(e.alias(name)): replaces the column in place, or appends it.
with_columns(df, e, name) ==
    IF df.err # "none" THEN df
    ELSE IF e.err # "none" THEN [df EXCEPT !.err = e.err]
    ELSE IF HasCol(df.cols, name)
         THEN [df EXCEPT !.cols = [i \in DOMAIN df.cols |->
                                      IF df.cols[i].name = name
                                      THEN Column(name, e.dtype, e.vals)
                                      ELSE df.cols[i]]]
         ELSE [df EXCEPT !.cols = Append(df.cols, Column(name, e.dtype, e.vals))]

\* df.select(names): the named columns, in the order given.
select(df, names) ==
    IF df.err # "none" THEN df
    ELSE IF \E i \in DOMAIN names : ~HasCol(df.cols, names[i])
         THEN [df EXCEPT !.err = "ColumnNotFoundError"]
    ELSE IF \E i, j \in DOMAIN names : i # j /\ names[i] = names[j]
         THEN [df EXCEPT !.err = "DuplicateError"]
    ELSE [df EXCEPT !.cols = [i \in DOMAIN names |-> ColAt(df.cols, names[i])]]

(***************************************************************************)
(* The model (schema): a sequence of fields in declaration order.          *)
(***************************************************************************)
NoDerivation == [kind |-> "none", src |-> "", roots |-> <<>>, k |-> 0]

ColumnReference(src) == [kind |-> "str", src |-> src, roots |-> <<>>, k |-> 0]

Expression(k, roots) == [kind |-> "expr", src |-> "", roots |-> roots, k |-> k]

\* A derived_from value that is neither a string nor a polars expression.
BadDerivation == [kind |-> "other", src |-> "", roots |-> <<>>, k |-> 0]

NoAlias == [kind |-> "none", src |-> "", idx |-> 0, plen |-> 0, idx_is_int |-> TRUE, choices |-> <<>>]

NoDefault == [t |-> "nodefault", i |-> 0, s |-> "", l |-> <<>>]

\* A field whose annotation has default dtype `dtype` and no pt.Field arguments.
Field(name, dtype, valid) ==
    [name |-> name, dtype |-> dtype, valid_dtypes |-> valid, props_dtype |-> "",
     default |-> NoDefault, derived_from |-> NoDerivation, validation_alias |-> NoAlias]

IntField(name) == Field(name, "Int64", NumericDtypes)

StrField(name) == Field(name, "String", {"String"})

Derived(f, d) == [f EXCEPT !.derived_from = d]

\* model._schema_properties(): the field names, in declaration order.
props(m) == [i \in DOMAIN m |-> m[i].name]

IsField(m, name) == \E i \in DOMAIN m : m[i].name = name

\* model.column_infos[name]
column_infos(m, name) == m[CHOOSE i \in DOMAIN m : m[i].name = name]

\* model.dtypes[name]
dtypes(m, name) == column_infos(m, name).dtype

\* model.derived_columns: the fields that declare derived_from.
derived_columns(m) == SelectSeq(props(m), LAMBDA n : column_infos(m, n).derived_from.kind # "none")

(***************************************************************************)
(* LazyFrame._derive_column                                                *)
(***************************************************************************)
Derivation(df, derived, raised) == [df |-> df, derived_columns |-> derived, raised |-> raised]

RECURSIVE _derive_column(_, _, _, _)
RECURSIVE derive_roots(_, _, _, _, _)

\* while root_cols: root_col = root_cols.pop(); recurse; extend
derive_roots(m, df, root_cols, derived, depth) ==
    IF root_cols = <<>> THEN Derivation(df, derived, "none")
    ELSE LET root_col == root_cols[Len(root_cols)]
             r == _derive_column(m, df, root_col, depth + 1)
         IN IF r.raised # "none" THEN r
            ELSE derive_roots(m, r.df, SubSeq(root_cols, 1, Len(root_cols) - 1),
                              derived \o r.derived_columns, depth)

\* _derive_column that takes a derived_from of another type for no derivation.
_derive_column_lenient(m, df, column_name, depth) ==
    IF depth > RecursionLimit THEN Derivation(df, <<>>, "RecursionError")
    ELSE IF ~IsField(m, column_name)
            \/ column_infos(m, column_name).derived_from.kind \in {"none", "other"}
         THEN Derivation(df, <<>>, "none")
    ELSE LET derived_from == column_infos(m, column_name).derived_from
             dtype == dtypes(m, column_name)
         IN IF derived_from.kind = "str"
            THEN Derivation(with_columns(df, pl_cast(pl_col(df.cols, derived_from.src), dtype),
                                         column_name),
                            <<column_name>>, "none")
            ELSE LET r == derive_roots(m, df, derived_from.roots, <<>>, depth)
                 IN IF r.raised # "none" THEN r
                    ELSE Derivation(with_columns(r.df,
                                                 pl_cast(pl_eval(r.df.cols, derived_from), dtype),
                                                 column_name),
                                    Append(r.derived_columns, column_name), "none")

_derive_column(m, df, column_name, depth) ==
    IF depth > RecursionLimit THEN Derivation(df, <<>>, "RecursionError")
    ELSE IF ~IsField(m, column_name) \/ column_infos(m, column_name).derived_from.kind = "none"
         THEN Derivation(df, <<>>, "none")
    ELSE LET derived_from == column_infos(m, column_name).derived_from
             dtype == dtypes(m, column_name)
         IN IF derived_from.kind = "str"
            THEN Derivation(with_columns(df, pl_cast(pl_col(df.cols, derived_from.src), dtype),
                                         column_name),
                            <<column_name>>, "none")
            ELSE IF derived_from.kind = "expr"
            THEN LET r == derive_roots(m, df, derived_from.roots, <<>>, depth)
                 IN IF r.raised # "none" THEN r
                    ELSE Derivation(with_columns(r.df,
                                                 pl_cast(pl_eval(r.df.cols, derived_from), dtype),
                                                 column_name),
                                    Append(r.derived_columns, column_name), "none")
            ELSE Derivation(df, <<>>, "TypeError")

(***************************************************************************)
(* LazyFrame.derive, collected (DataFrame.derive)                          *)
(***************************************************************************)
None == [given |-> FALSE, list |-> <<>>]

Given(q) == [given |-> TRUE, list |-> q]

OpResult(status, cols, plan) == [status |-> status, cols |-> cols, plan |-> plan]

\* LazyFrame.collect(): the first error of the plan is raised, if any.
collect(df, plan) == OpResult(IF df.err = "none" THEN "ok" ELSE df.err, df.cols, plan)

\* to_derive = self.model.derived_columns if columns is None else columns
to_derive_of(m, columns) == IF columns.given THEN columns.list ELSE derived_columns(m)

RECURSIVE derive_loop(_, _, _, _, _)
\* for column_name in to_derive: if column_name not in derived_columns: ...
derive_loop(m, df, to_derive, i, derived) ==
    IF i > Len(to_derive) THEN Derivation(df, derived, "none")
    ELSE IF to_derive[i] \in Range(derived) THEN derive_loop(m, df, to_derive, i + 1, derived)
    ELSE LET r == _derive_column(m, df, to_derive[i], 1)
         IN IF r.raised # "none" THEN Derivation(r.df, derived, r.raised)
            ELSE derive_loop(m, r.df, to_derive, i + 1, derived \o r.derived_columns)

\* out_cols without the columns that are not in the model.
out_cols_model_only(m, original_columns, to_derive, iter_order) ==
    SelectSeq(props(m), LAMBDA x : x \in original_columns \cup Range(to_derive))

\* out_cols: the model's columns first, in declaration order, then whatever else
\* original_columns.union(to_derive) holds, in the iteration order of that set
\* (iter_order: the order in which this interpreter run iterates a set of names).
out_cols(m, original_columns, to_derive, iter_order) ==
    LET both == original_columns \cup Range(to_derive)
        first == SelectSeq(props(m), LAMBDA x : x \in both)
    IN first \o SelectSeq(iter_order, LAMBDA x : x \in both /\ x \notin Range(first))

derive(m, cols, columns, iter_order) ==
    LET original_columns == Range(columns_of(cols))
        to_derive == to_derive_of(m, columns)
        r == derive_loop(m, LF(cols), to_derive, 1, <<>>)
    IN IF r.raised # "none" THEN OpResult(r.raised, cols, r.derived_columns)
       ELSE collect(select(r.df, out_cols(m, original_columns, to_derive, iter_order)),
                    r.derived_columns)

(***************************************************************************)
(* The class of a table object: DataFrame or LazyFrame, a sub-class with   *)
(* the attribute model when a model is associated.  A LazyFrame carries    *)
(* the first error of its plan in err.                                     *)
(***************************************************************************)
NoModel == [bound |-> FALSE, model |-> <<>>]

SomeModel(m) == [bound |-> TRUE, model |-> m]

TableClass(kind, model_opt) ==
    [kind |-> kind, bound |-> model_opt.bound, model |-> model_opt.model, err |-> "none"]

\* getattr(self, "model", None)
model_of(t) == IF t.bound THEN SomeModel(t.model) ELSE NoModel

\* LazyFrame._construct_lazyframe_model_class(model)
_construct_lazyframe_model_class(model_opt) ==
    IF ~model_opt.bound THEN TableClass("LazyFrame", NoModel)
    ELSE TableClass("LazyFrame", SomeModel(model_opt.model))

\* DataFrame._construct_dataframe_model_class(model)
_construct_dataframe_model_class(m) == TableClass("DataFrame", SomeModel(m))

\* DataFrame.lazy(): the class of the LazyFrame it returns.
lazy(t) == _construct_lazyframe_model_class(model_of(t))

\* A collect() that returns the plain DataFrame class.
collect_class_plain(t) == TableClass("DataFrame", NoModel)

\* LazyFrame.collect(): the class of the DataFrame it returns.
collect_class(t) ==
    IF t.bound THEN _construct_dataframe_model_class(t.model)
    ELSE TableClass("DataFrame", NoModel)

\* self.model on a table without the attribute.
AttributeError == "AttributeError"

\* What the message of an exception names: the operation and the class.
Message(operation, owner) == [operation |-> operation, owner |-> owner]

Unnamed == Message("", "")

\* "'LazyFrame' object has no attribute 'model'": the class of the object the
\* attribute was looked up on, and no operation.
NoAttribute(t) == Message("", t.kind)

\* The errors polars raises when it resolves the schema of a plan.
SchemaErrors == {"ColumnNotFoundError", "DuplicateError", "SchemaError"}

(***************************************************************************)
(* Inputs of the derive() specification                                    *)
(***************************************************************************)
DeriveNames == {"foo", "bar", "double_bar", "x"}

\* The values an input column holds, by name: foo = 1, 2, ..; bar and
\* double_bar = 10, 20, .. (stale: not what foo derives); x = null, 2, ..
InputVals(name) ==
    [i \in Rows |->
        IF name = "foo" THEN IntV(i)
        ELSE IF name = "x" THEN (IF i = 1 THEN Null ELSE IntV(i))
        ELSE IntV(10 * i)]

DeriveFrames ==
    {[i \in DOMAIN q |-> Column(q[i], "Int64", InputVals(q[i]))] :
        q \in DistinctSeqs(DeriveNames, Cardinality(DeriveNames))}

\* class Foo(pt.Model): bar: int = pt.Field(derived_from="foo")
\*                      double_bar: int = pt.Field(derived_from=2 * pl.col("bar"))
Foo == <<Derived(IntField("bar"), ColumnReference("foo")),
         Derived(IntField("double_bar"), Expression(2, <<"bar">>))>>

FooReversed == <<Derived(IntField("double_bar"), Expression(2, <<"bar">>)),
                 Derived(IntField("bar"), ColumnReference("foo"))>>

\* A column reference to a derived column that is declared later / earlier.
Chain == <<Derived(IntField("double_bar"), ColumnReference("bar")),
           Derived(IntField("bar"), ColumnReference("foo"))>>

ChainForward == <<Derived(IntField("bar"), ColumnReference("foo")),
                  Derived(IntField("double_bar"), ColumnReference("bar"))>>

\* An underived field, and an expression over a derived and an underived column.
Subset == <<IntField("foo"),
            Derived(IntField("bar"), Expression(1, <<"foo">>)),
            Derived(IntField("double_bar"), Expression(1, <<"bar", "foo">>))>>

\* A literal expression, and a field of another dtype.
Literal == <<Derived(IntField("bar"), Expression(3, <<>>)),
             Derived(StrField("double_bar"), ColumnReference("bar"))>>

Typed == <<Derived(StrField("bar"), ColumnReference("foo")),
           Derived(Field("double_bar", "UInt16", NumericDtypes), Expression(2, <<"foo">>))>>

SelfCycle == <<Derived(IntField("bar"), Expression(2, <<"bar">>)),
               IntField("double_bar")>>

ExprCycle == <<Derived(IntField("bar"), Expression(1, <<"double_bar">>)),
               Derived(IntField("double_bar"), Expression(1, <<"bar">>))>>

RefCycle == <<Derived(IntField("bar"), ColumnReference("double_bar")),
              Derived(IntField("double_bar"), ColumnReference("bar"))>>

BadSource == <<Derived(IntField("bar"), BadDerivation),
               Derived(IntField("double_bar"), ColumnReference("foo"))>>

DeriveModels == {Foo, FooReversed, Chain, ChainForward, Subset, Literal, Typed,
                 SelfCycle, ExprCycle, RefCycle, BadSource}

\* The names a derive(columns=...) call may list: the fields and a column that
\* is no derived field.
RequestNames == {"foo", "bar", "double_bar"}

DeriveRequests == {None} \cup {Given(q) : q \in DistinctSeqs(RequestNames, MaxReq)}

NoOp == [op |-> "none", columns |-> None, strict |-> FALSE, input |-> <<>>,
         status |-> "ok", output |-> <<>>, plan |-> <<>>]

InitDerive ==
    /\ model \in DeriveModels
    /\ hashOrder \in Perms(DeriveNames \ Range(props(model)))
    /\ frame \in DeriveFrames
    /\ last = NoOp
    /\ table = TableClass("DataFrame", SomeModel(model))

\* DataFrame.derive(columns): self.lazy().derive(columns=columns).collect()
Derive(columns) ==
    \E r \in {IF table.bound THEN derive(table.model, frame, columns, hashOrder)
              ELSE OpResult(AttributeError, frame, <<>>)} :
       /\ table.kind = "DataFrame"
       /\ last' = [op |-> "derive", columns |-> columns, strict |-> FALSE, input |-> frame,
                   status |-> r.status, output |-> r.cols, plan |-> r.plan,
                   message |-> IF table.bound THEN Unnamed ELSE NoAttribute(lazy(table))]
       /\ frame' = IF r.status = "ok" THEN r.cols ELSE frame
       /\ table' = IF r.status = "ok" THEN collect_class(lazy(table)) ELSE table
       /\ UNCHANGED <<model, hashOrder>>

NextDerive == \E columns \in DeriveRequests : Derive(columns)

SpecDerive == InitDerive /\ [][NextDerive]_vars

(***************************************************************************)
(* The derivation dependencies of a model                                  *)
(***************************************************************************)
FieldNames(m) == Range(props(m))

DerivedFields(m) == Range(derived_columns(m))

\* The columns a field is derived from.
Sources(m, n) ==
    IF ~IsField(m, n) THEN {}
    ELSE LET d == column_infos(m, n).derived_from
         IN IF d.kind = "str" THEN {d.src}
            ELSE IF d.kind = "expr" THEN Range(d.roots)
            ELSE {}

RECURSIVE SourcesClosure(_, _, _)
SourcesClosure(m, S, n) ==
    IF n = 0 THEN S
    ELSE SourcesClosure(m, S \cup UNION {Sources(m, x) : x \in S}, n - 1)

\* Everything n is derived from, directly or through other derived fields.
DependsOn(m, n) == SourcesClosure(m, Sources(m, n), Len(m))

Acyclic(m) == \A n \in FieldNames(m) : n \notin DependsOn(m, n)

\* The columns the derivations need that no derivation provides.
BaseColumns(m) == UNION {Sources(m, n) : n \in DerivedFields(m)} \ DerivedFields(m)

WellTyped(m) == \A i \in DOMAIN m : m[i].derived_from.kind # "other"

\* The value the declaration of field n gives it in the frame cols.
DeclaredValue(m, cols, n) ==
    LET d == column_infos(m, n).derived_from
    IN pl_cast(IF d.kind = "str" THEN pl_col(cols, d.src) ELSE pl_eval(cols, d), dtypes(m, n))

Requested(m, columns) == Range(to_derive_of(m, columns))

RECURSIVE RootsClosure(_, _, _)
RootsClosure(m, D, n) ==
    IF n = 0 THEN D
    ELSE RootsClosure(m,
            D \cup {r \in DerivedFields(m) :
                      \E d \in D : /\ column_infos(m, d).derived_from.kind = "expr"
                                   /\ r \in Range(column_infos(m, d).derived_from.roots)},
            n - 1)

\* The derived fields a derive(columns) call defines: the requested ones, and
\* the roots of every Expression among them, transitively.
Rederived(m, columns) == RootsClosure(m, Requested(m, columns) \cap DerivedFields(m), Len(m))

DeriveOk == last.op = "derive" /\ last.status = "ok"

(***************************************************************************)
(* Claims about derive()                                                   *)
(***************************************************************************)
\* C1: on an acyclic model and an input holding the base columns, derive()
\* without a column list succeeds and every derived field holds the value of
\* its source column, or of its expression over the derived columns, cast to
\* the field's dtype.
C1_DeriveAllFields ==
    (/\ last.op = "derive" /\ ~last.columns.given
     /\ Acyclic(model) /\ WellTyped(model)
     /\ BaseColumns(model) \subseteq Range(columns_of(last.input))
     /\ last.status # "InvalidOperationError")
    => /\ last.status = "ok"
       /\ \A n \in DerivedFields(model) :
            /\ HasCol(last.output, n)
            /\ ColAt(last.output, n).dtype = dtypes(model, n)
            /\ ColAt(last.output, n).vals = DeclaredValue(model, last.output, n).vals

\* C2: the columns of derive()'s result are the model's fields present among
\* the input and requested columns, in declaration order, and then the other
\* input columns in the order the input had them.
C2_ColumnOrder ==
    DeriveOk =>
        columns_of(last.output) =
            SelectSeq(props(model),
                      LAMBDA x : x \in Range(columns_of(last.input))
                                        \cup Requested(model, last.columns))
            \o SelectSeq(columns_of(last.input), LAMBDA x : ~IsField(model, x))

\* C3: derive() applied to the result of a successful derive() on an acyclic
\* model returns that result again.
C3_Idempotent ==
    [][(/\ DeriveOk /\ ~last.columns.given /\ Acyclic(model)
        /\ last'.op = "derive" /\ ~last'.columns.given)
       => (last'.status = "ok" /\ last'.output = last.output)]_vars

\* C4 as stated: derive(columns) leaves every input column outside the
\* requested list present, with the values and dtype of the input.
C4_OthersPreserved ==
    (DeriveOk /\ last.columns.given) =>
        \A c \in Range(columns_of(last.input)) \ Range(last.columns.list) :
            HasCol(last.output, c) /\ ColAt(last.output, c) = ColAt(last.input, c)

\* C4 amended: derive(columns) keeps every input column outside the requested
\* list, and leaves it unchanged unless it is a derived field that is an
\* Expression root, directly or transitively, of a requested column.
C4_OthersPreservedUnlessRederived ==
    (DeriveOk /\ last.columns.given) =>
        \A c \in Range(columns_of(last.input)) \ Range(last.columns.list) :
            /\ HasCol(last.output, c)
            /\ c \notin Rederived(model, last.columns) =>
                   ColAt(last.output, c) = ColAt(last.input, c)

\* A derive(columns) that re-derived an unrequested input column and kept
\* another unrequested input column as it was.
C4_Witness ==
    /\ DeriveOk /\ last.columns.given
    /\ \E c \in Range(columns_of(last.input)) \ Range(last.columns.list) :
          /\ c \in Rederived(model, last.columns)
          /\ ColAt(last.output, c) # ColAt(last.input, c)
    /\ \E c \in Range(columns_of(last.input)) \ Range(last.columns.list) :
          /\ c \notin Rederived(model, last.columns)
          /\ ColAt(last.output, c) = ColAt(last.input, c)

\* C5: a derive() that reaches a cyclic derivation fails with a
\* cyclic-derivation error.
C5_CycleDetected ==
    (/\ last.op = "derive"
     /\ \E c \in Requested(model, last.columns) :
           \E n \in {c} \cup DependsOn(model, c) : n \in DependsOn(model, n))
    => last.status = "CyclicDerivationError"

\* C15: a derive() whose requested columns include a field with a
\* derived_from that is neither a string nor an expression fails with
\* TypeError, whatever the other columns of the plan would do when evaluated,
\* and the table is the input table.
C15_TypeErrorAtPlanning ==
    (/\ last.op = "derive"
     /\ \E c \in Requested(model, last.columns) :
           IsField(model, c) /\ column_infos(model, c).derived_from.kind = "other")
    => /\ last.status = "TypeError"
       /\ last.output = last.input
       /\ frame = last.input

\* derive(["double_bar", "bar"]) where double_bar's source foo is missing and
\* bar's derived_from has another type: the TypeError, not the missing column.
C15_Witness ==
    /\ last.op = "derive" /\ last.status = "TypeError"
    /\ model = BadSource
    /\ last.columns = Given(<<"double_bar", "bar">>)
    /\ ~HasCol(last.input, "foo")
    /\ frame = last.input

\* C16: the column definitions one derive() emits hold at most one definition
\* per column name.
C16_DerivedOnce ==
    last.op = "derive" =>
        \A i, j \in DOMAIN last.plan : i # j => last.plan[i] # last.plan[j]

\* C17: when derive() emits the definition of a column, every source of that
\* column that is itself a derived field (the column a string names, each
\* root of an expression) has its definition earlier in the plan.  Stated for
\* the models without a cyclic derivation, where such a plan exists.
C17_SourcesFirst ==
    (last.op = "derive" /\ Acyclic(model)) =>
        \A i \in DOMAIN last.plan :
            \A src \in Sources(model, last.plan[i]) \cap DerivedFields(model) :
                \E j \in 1..(i - 1) : last.plan[j] = src

(***************************************************************************)
(* LazyFrame.unalias                                                       *)
(***************************************************************************)
AliasStr(src) ==
    [kind |-> "str", src |-> src, idx |-> 0, plen |-> 0, idx_is_int |-> TRUE, choices |-> <<>>]

\* AliasPath(src, idx, ...): plen components, the second one idx.
AliasPath(src, idx, plen) ==
    [kind |-> "path", src |-> src, idx |-> idx, plen |-> plen, idx_is_int |-> TRUE,
     choices |-> <<>>]

AliasChoices(choices) ==
    [kind |-> "choices", src |-> "", idx |-> 0, plen |-> 0, idx_is_int |-> TRUE,
     choices |-> choices]

Aliased(f, va) == [f EXCEPT !.validation_alias = va]

\* An optional expression: None, an expression, or an exception raised.
NoExpr == [some |-> FALSE, raised |-> "none", e |-> ExprErr("none")]

SomeExpr(e) == [some |-> TRUE, raised |-> "none", e |-> e]

RaisedExpr(x) == [some |-> FALSE, raised |-> x, e |-> ExprErr("none")]

\* expr.list.get(idx, null_on_oob=True)
list_get(e, idx) ==
    IF e.err # "none" THEN e
    ELSE IF e.dtype # "List" THEN ExprErr("SchemaError")
    ELSE ExprOk("Int64",
            [i \in DOMAIN e.vals |->
                LET q == e.vals[i].l
                    at == IF idx >= 0 THEN idx + 1 ELSE Len(q) + idx + 1
                IN IF e.vals[i].t = "list" /\ at \in DOMAIN q THEN IntV(q[at]) ELSE Null])

\* The alias takes precedence over the column it fills.
fill_null_value_first(e, value) ==
    IF e.err # "none" THEN e
    ELSE IF value.err # "none" THEN value
    ELSE ExprOk(e.dtype,
            [i \in DOMAIN e.vals |-> IF value.vals[i].t = "null" THEN e.vals[i] ELSE value.vals[i]])

\* expr.fill_null(value=value), for two expressions of one dtype
fill_null(e, value) ==
    IF e.err # "none" THEN e
    ELSE IF value.err # "none" THEN value
    ELSE ExprOk(e.dtype,
            [i \in DOMAIN e.vals |-> IF e.vals[i].t = "null" THEN value.vals[i] ELSE e.vals[i]])

RECURSIVE choices_first_present(_, _, _)
choices_first_present(cols, choices, i) ==
    IF i > Len(choices) THEN NoExpr
    ELSE IF choices[i].kind = "str" /\ HasCol(cols, choices[i].src)
         THEN SomeExpr(pl_col(cols, choices[i].src))
    ELSE IF choices[i].kind = "path" /\ HasCol(cols, choices[i].src)
         THEN SomeExpr(list_get(pl_col(cols, choices[i].src), choices[i].idx))
    ELSE choices_first_present(cols, choices, i + 1)

\* to_expr that resolves AliasChoices to its first present candidate alone.
to_expr_first_present(cols, va) ==
    IF va.kind = "str"
    THEN (IF HasCol(cols, va.src) THEN SomeExpr(pl_col(cols, va.src)) ELSE NoExpr)
    ELSE IF va.kind = "path"
    THEN (IF va.plen # 2 \/ ~va.idx_is_int THEN RaisedExpr("NotImplementedError")
          ELSE IF HasCol(cols, va.src) THEN SomeExpr(list_get(pl_col(cols, va.src), va.idx))
          ELSE NoExpr)
    ELSE IF va.kind = "choices" THEN choices_first_present(cols, va.choices, 1)
    ELSE RaisedExpr("NotImplementedError")

RECURSIVE to_expr(_, _)
RECURSIVE choices_loop(_, _, _, _)

\* for choice in va.choices: if (part := to_expr(choice)) is not None: ...
choices_loop(cols, choices, i, local_expr) ==
    IF i > Len(choices) THEN local_expr
    ELSE LET part == to_expr(cols, choices[i])
         IN IF part.raised # "none" THEN part
            ELSE IF part.some
                 THEN choices_loop(cols, choices, i + 1,
                                   IF local_expr.some
                                   THEN SomeExpr(fill_null(local_expr.e, part.e))
                                   ELSE part)
                 ELSE choices_loop(cols, choices, i + 1, local_expr)

to_expr(cols, va) ==
    IF va.kind = "str"
    THEN (IF HasCol(cols, va.src) THEN SomeExpr(pl_col(cols, va.src)) ELSE NoExpr)
    ELSE IF va.kind = "path"
    THEN (IF va.plen # 2 \/ ~va.idx_is_int THEN RaisedExpr("NotImplementedError")
          ELSE IF HasCol(cols, va.src) THEN SomeExpr(list_get(pl_col(cols, va.src), va.idx))
          ELSE NoExpr)
    ELSE IF va.kind = "choices" THEN choices_loop(cols, va.choices, 1, NoExpr)
    ELSE RaisedExpr("NotImplementedError")

NamedExpr(name, e) == [name |-> name, e |-> e]

\* df.with_columns(exprs): every column of df stays, the expressions replace
\* or extend them.
with_columns_exprs(df, exprs) ==
    IF df.err # "none" THEN df
    ELSE IF \E i \in DOMAIN exprs : exprs[i].e.err # "none"
         THEN [df EXCEPT !.err = exprs[CHOOSE i \in DOMAIN exprs :
                                         /\ exprs[i].e.err # "none"
                                         /\ \A j \in 1..(i - 1) : exprs[j].e.err = "none"].e.err]
    ELSE IF \E i, j \in DOMAIN exprs : i # j /\ exprs[i].name = exprs[j].name
         THEN [df EXCEPT !.err = "DuplicateError"]
    ELSE LET named(n) == exprs[CHOOSE i \in DOMAIN exprs : exprs[i].name = n]
             replaced == [i \in DOMAIN df.cols |->
                            IF \E j \in DOMAIN exprs : exprs[j].name = df.cols[i].name
                            THEN Column(df.cols[i].name, named(df.cols[i].name).e.dtype,
                                        named(df.cols[i].name).e.vals)
                            ELSE df.cols[i]]
             added == SelectSeq(exprs, LAMBDA x : ~HasCol(df.cols, x.name))
         IN [df EXCEPT !.cols = replaced \o [i \in DOMAIN added |->
                                    Column(added[i].name, added[i].e.dtype, added[i].e.vals)]]

\* select(exprs) taken for with_columns(exprs): the other columns stay.
select_exprs_keeping(df, exprs) == with_columns_exprs(df, exprs)

\* df.select(exprs): one output column per expression, in the order given.
select_exprs(df, exprs) ==
    IF df.err # "none" THEN df
    ELSE IF \E i \in DOMAIN exprs : exprs[i].e.err # "none"
         THEN [df EXCEPT !.err = exprs[CHOOSE i \in DOMAIN exprs :
                                         /\ exprs[i].e.err # "none"
                                         /\ \A j \in 1..(i - 1) : exprs[j].e.err = "none"].e.err]
    ELSE IF \E i, j \in DOMAIN exprs : i # j /\ exprs[i].name = exprs[j].name
         THEN [df EXCEPT !.err = "DuplicateError"]
    ELSE [df EXCEPT !.cols = [i \in DOMAIN exprs |->
                                 Column(exprs[i].name, exprs[i].e.dtype, exprs[i].e.vals)]]

RECURSIVE unalias_loop(_, _, _, _)
\* for name, field_info in self.model.model_fields.items(): ...
unalias_loop(m, cols, i, exprs) ==
    IF i > Len(m) THEN [exprs |-> exprs, raised |-> "none"]
    ELSE LET name == m[i].name
             va == m[i].validation_alias
         IN IF va.kind = "none"
            THEN unalias_loop(m, cols, i + 1, Append(exprs, NamedExpr(name, pl_col(cols, name))))
            ELSE LET expr == to_expr(cols, va)
                 IN IF expr.raised # "none" THEN [exprs |-> exprs, raised |-> expr.raised]
                    ELSE IF HasCol(cols, name)
                    THEN unalias_loop(m, cols, i + 1,
                            Append(exprs,
                                   NamedExpr(name,
                                             IF ~expr.some THEN pl_col(cols, name)
                                             ELSE fill_null(pl_col(cols, name), expr.e))))
                    ELSE IF expr.some
                    THEN unalias_loop(m, cols, i + 1, Append(exprs, NamedExpr(name, expr.e)))
                    ELSE unalias_loop(m, cols, i + 1, exprs)

\* any(fi.validation_alias for fi in self.model.model_fields.values())
any_validation_alias(m) == \E i \in DOMAIN m : m[i].validation_alias.kind # "none"

\* DataFrame.unalias(): self.lazy().unalias().collect()
unalias(m, cols) ==
    IF ~any_validation_alias(m) THEN OpResult("ok", cols, <<>>)
    ELSE LET r == unalias_loop(m, cols, 1, <<>>)
         IN IF r.raised # "none" THEN OpResult(r.raised, cols, <<>>)
            ELSE collect(select_exprs(LF(cols), r.exprs), <<>>)

(***************************************************************************)
(* Inputs of the unalias() specification                                   *)
(***************************************************************************)
\* val and other are fields; A, B and names are alias sources; x is neither.
UnaliasOrder == <<"x", "val", "A", "names", "B", "other">>

\* val = 5, .., null; A = null, 2, ..; B = 10, 20, ..; names = [7, 8], [9], ..
UnaliasVals(name) ==
    [i \in Rows |->
        IF name = "val" THEN (IF i = NRows THEN Null ELSE IntV(4 + i))
        ELSE IF name = "A" THEN (IF i = 1 THEN Null ELSE IntV(i))
        ELSE IF name = "B" THEN IntV(10 * i)
        ELSE IF name = "names" THEN (IF i = 1 THEN ListV(<<7, 8>>) ELSE ListV(<<9>>))
        ELSE IntV(i)]

UnaliasFrames ==
    {LET q == SelectSeq(UnaliasOrder, LAMBDA n : n \in S)
     IN [i \in DOMAIN q |->
            Column(q[i], IF q[i] = "names" THEN "List" ELSE "Int64", UnaliasVals(q[i]))] :
        S \in SUBSET Range(UnaliasOrder)}

Direct == <<Aliased(IntField("val"), AliasStr("A")), IntField("other")>>

Choices == <<Aliased(IntField("val"), AliasChoices(<<AliasStr("A"), AliasStr("B")>>))>>

\* my_val_b: int = pt.Field(validation_alias=AliasChoices("my_val_b", "myValB"))
ChoicesSelf == <<Aliased(IntField("val"), AliasChoices(<<AliasStr("val"), AliasStr("B")>>)),
                 Aliased(IntField("other"), AliasStr("B"))>>

\* last_name: str = pt.Field(validation_alias=AliasChoices("lastName", AliasPath("names", 1)))
ChoicesPath == <<Aliased(IntField("val"),
                         AliasChoices(<<AliasStr("A"), AliasPath("names", 1, 2),
                                        AliasStr("B")>>))>>

\* first_name: str = pt.Field(validation_alias=AliasPath("names", 0))
Path == <<Aliased(IntField("val"), AliasPath("names", 0, 2)),
          Aliased(IntField("other"), AliasChoices(<<AliasPath("names", 2, 2), AliasStr("A")>>))>>

LongPath == <<IntField("other"), Aliased(IntField("val"), AliasPath("names", 0, 3))>>

Unaliased == <<IntField("val"), IntField("other")>>

UnaliasModels == {Direct, Choices, ChoicesSelf, ChoicesPath, Path, LongPath, Unaliased}

InitUnalias ==
    /\ model \in UnaliasModels
    /\ hashOrder = <<>>
    /\ frame \in UnaliasFrames
    /\ last = NoOp
    /\ table = TableClass("DataFrame", SomeModel(model))

Unalias ==
    \E r \in {IF table.bound THEN unalias(table.model, frame)
              ELSE OpResult(AttributeError, frame, <<>>)} :
       /\ table.kind = "DataFrame"
       /\ last' = [op |-> "unalias", columns |-> None, strict |-> FALSE, input |-> frame,
                   status |-> r.status, output |-> r.cols, plan |-> r.plan,
                   message |-> IF table.bound THEN Unnamed ELSE NoAttribute(lazy(table))]
       /\ frame' = IF r.status = "ok" THEN r.cols ELSE frame
       /\ table' = IF r.status = "ok" THEN collect_class(lazy(table)) ELSE table
       /\ UNCHANGED <<model, hashOrder>>

NextUnalias == Unalias

SpecUnalias == InitUnalias /\ [][NextUnalias]_vars

(***************************************************************************)
(* Claims about unalias()                                                  *)
(***************************************************************************)
UnaliasOk == last.op = "unalias" /\ last.status = "ok"

\* The choices of an alias: itself, unless it is an AliasChoices.
Candidates(va) == IF va.kind = "choices" THEN va.choices ELSE <<va>>

SourcePresent(cols, va) == \E j \in DOMAIN Candidates(va) : HasCol(cols, Candidates(va)[j].src)

\* The value row i of the source column of a string or path alias holds.
CandidateValue(cols, c, i) ==
    LET v == ColAt(cols, c.src).vals[i]
    IN IF c.kind = "str" THEN v
       ELSE IF v.t = "list" /\ c.idx + 1 \in DOMAIN v.l THEN IntV(v.l[c.idx + 1])
       ELSE Null

\* Row i of an alias: the first candidate, in declared order, whose source
\* column is present and non-null in that row; null when there is none.
Resolved(cols, va, i) ==
    LET cs == Candidates(va)
        hit(j) == HasCol(cols, cs[j].src) /\ CandidateValue(cols, cs[j], i) # Null
    IN IF \E j \in DOMAIN cs : hit(j)
       THEN CandidateValue(cols, cs[CHOOSE j \in DOMAIN cs :
                                       hit(j) /\ \A k \in 1..(j - 1) : ~hit(k)], i)
       ELSE Null

AliasedFields(m) == {j \in DOMAIN m : m[j].validation_alias.kind # "none"}

\* C6: when the input holds the canonical column and a source of the alias,
\* rows where the canonical column is non-null keep its value, and the null
\* rows take the value resolved from the alias.
C6_CanonicalPrecedence ==
    UnaliasOk =>
        \A j \in AliasedFields(model) :
            (HasCol(last.input, model[j].name)
             /\ SourcePresent(last.input, model[j].validation_alias))
            => /\ HasCol(last.output, model[j].name)
               /\ \A i \in Rows :
                    LET c == ColAt(last.input, model[j].name).vals[i]
                    IN ColAt(last.output, model[j].name).vals[i] =
                          IF c # Null THEN c
                          ELSE Resolved(last.input, model[j].validation_alias, i)

\* A canonical column beside a disagreeing alias source: one row keeps the
\* canonical value, another row was null and is filled from the alias.
C6_Witness ==
    /\ UnaliasOk
    /\ \E j \in AliasedFields(model) :
          /\ HasCol(last.input, model[j].name)
          /\ SourcePresent(last.input, model[j].validation_alias)
          /\ \E i \in Rows :
                /\ ColAt(last.input, model[j].name).vals[i] # Null
                /\ Resolved(last.input, model[j].validation_alias, i) # Null
                /\ Resolved(last.input, model[j].validation_alias, i)
                      # ColAt(last.input, model[j].name).vals[i]
          /\ \E i \in Rows :
                /\ ColAt(last.input, model[j].name).vals[i] = Null
                /\ ColAt(last.output, model[j].name).vals[i] # Null

\* C7: an AliasChoices resolves, row by row, to the first candidate in declared
\* order whose source column is present and non-null in the row, and to null
\* when no candidate is.
C7_ChoicesFirstNonNull ==
    UnaliasOk =>
        \A j \in AliasedFields(model) :
            (/\ model[j].validation_alias.kind = "choices"
             /\ ~HasCol(last.input, model[j].name)
             /\ SourcePresent(last.input, model[j].validation_alias))
            => /\ HasCol(last.output, model[j].name)
               /\ \A i \in Rows :
                    ColAt(last.output, model[j].name).vals[i] =
                        Resolved(last.input, model[j].validation_alias, i)

\* Candidates A = null, 2 and B = 10, 20 resolved to 10, 2.
C7_Witness ==
    /\ UnaliasOk
    /\ model = Choices
    /\ ~HasCol(last.input, "val") /\ HasCol(last.input, "A") /\ HasCol(last.input, "B")
    /\ ColAt(last.input, "A").vals[1] = Null /\ ColAt(last.input, "A").vals[2] = IntV(2)
    /\ ColAt(last.input, "B").vals[1] = IntV(10) /\ ColAt(last.input, "B").vals[2] = IntV(20)
    /\ ColAt(last.output, "val").vals[1] = IntV(10)
    /\ ColAt(last.output, "val").vals[2] = IntV(2)

AliasesWellFormed(m) ==
    \A j \in AliasedFields(m) :
        \A k \in DOMAIN Candidates(m[j].validation_alias) :
            LET c == Candidates(m[j].validation_alias)[k]
            IN c.kind = "str" \/ (c.kind = "path" /\ c.plen = 2 /\ c.idx_is_int)

\* C8: unalias() succeeds whichever fields have no data source, and a field is
\* in the output only if its canonical column or a source of its alias is in
\* the input.
C8_NoSourceNoFailure ==
    (last.op = "unalias" /\ AliasesWellFormed(model))
    => /\ last.status = "ok"
       /\ \A j \in DOMAIN model :
            HasCol(last.output, model[j].name)
            => \/ HasCol(last.input, model[j].name)
               \/ /\ j \in AliasedFields(model)
                  /\ SourcePresent(last.input, model[j].validation_alias)

IsProjection(m, cols) ==
    /\ \A i \in DOMAIN cols : IsField(m, cols[i].name)
    /\ \A i, j \in DOMAIN cols : i # j => cols[i].name # cols[j].name

\* C9 as stated: the output of unalias() holds only fields of the model, each
\* at most once, whether or not a field declares an alias.
C9_Projection == UnaliasOk => IsProjection(model, last.output)

\* C9 amended: when at least one field declares an alias, the output of
\* unalias() holds only fields of the model, each at most once.
C9_ProjectionWhenAliased ==
    (UnaliasOk /\ any_validation_alias(model)) => IsProjection(model, last.output)

\* An unalias() under a model with an alias that dropped an input column
\* which is not a field.
C9_Witness ==
    /\ UnaliasOk /\ any_validation_alias(model)
    /\ last.output # <<>>
    /\ \E i \in DOMAIN last.input :
          ~IsField(model, last.input[i].name) /\ ~HasCol(last.output, last.input[i].name)

(***************************************************************************)
(* LazyFrame.cast                                                          *)
(***************************************************************************)
\* pt.Field(dtype=...): properties[column]["dtype"], which model.dtypes gives too.
Dtyped(f, dtype) == [f EXCEPT !.props_dtype = dtype, !.dtype = dtype]

\* model.valid_dtypes[name]
valid_dtypes(m, name) == column_infos(m, name).valid_dtypes

KeepDtype == [cast |-> FALSE, dtype |-> ""]

CastTo(dtype) == [cast |-> TRUE, dtype |-> dtype]

\* The decision that keeps a valid dtype under strict too.
cast_decision_lenient(m, columns, strict, column, current_dtype) ==
    IF column \notin columns \/ ~IsField(m, column) THEN KeepDtype
    ELSE IF column_infos(m, column).props_dtype # ""
         THEN CastTo(column_infos(m, column).props_dtype)
    ELSE IF current_dtype \in valid_dtypes(m, column) THEN KeepDtype
    ELSE CastTo(dtypes(m, column))

\* The branch cast() takes for one column of the frame.
cast_decision(m, columns, strict, column, current_dtype) ==
    IF column \notin columns \/ ~IsField(m, column) THEN KeepDtype
    ELSE IF column_infos(m, column).props_dtype # ""
         THEN CastTo(column_infos(m, column).props_dtype)
    ELSE IF ~strict /\ current_dtype \in valid_dtypes(m, column) THEN KeepDtype
    ELSE CastTo(dtypes(m, column))

\* DataFrame.cast(strict, columns): self.lazy().cast(strict, columns).collect()
cast(m, cols, strict, columns) ==
    LET names == IF columns.given /\ columns.list # <<>>
                 THEN Range(columns.list)
                 ELSE Range(columns_of(cols))
        exprs == [i \in DOMAIN cols |->
                    LET d == cast_decision(m, names, strict, cols[i].name, cols[i].dtype)
                    IN NamedExpr(cols[i].name,
                                 IF d.cast THEN pl_cast(pl_col(cols, cols[i].name), d.dtype)
                                 ELSE pl_col(cols, cols[i].name))]
    IN collect(with_columns_exprs(LF(cols), exprs), <<>>)

(***************************************************************************)
(* Inputs of the cast() specification                                      *)
(***************************************************************************)
\* class Product(pt.Model): name: str
\*                          cent_price: int = pt.Field(dtype=pl.UInt16)
Product == <<StrField("name"), Dtyped(IntField("cent_price"), "UInt16")>>

\* The same fields with no dtype given: int is Int64, and any integer dtype is valid.
PlainProduct == <<StrField("name"), IntField("cent_price")>>

CastModels == {Product, PlainProduct}

CastNames == {"name", "cent_price", "x"}

\* The columns an input may hold under each name.
CastColumns(name) ==
    IF name = "name"
    THEN {Column(name, "String", [i \in Rows |-> StrV("apple")]),
          Column(name, "Int64", [i \in Rows |-> IntV(i)])}
    ELSE IF name = "cent_price"
    THEN {Column(name, "String", [i \in Rows |-> StrV("8")]),
          Column(name, "Int64", [i \in Rows |-> IntV(i)]),
          Column(name, "UInt16", [i \in Rows |-> IntV(i)]),
          Column(name, "Int64", [i \in Rows |-> IntV(i - 2)])}
    ELSE {Column(name, "Int64", [i \in Rows |-> IF i = 1 THEN Null ELSE IntV(i)])}

\* Every frame of distinct columns, in every order.
CastFrames ==
    {cols \in UNION {[1..k -> UNION {CastColumns(n) : n \in CastNames}] :
                        k \in 0..Cardinality(CastNames)} :
        \A i, j \in DOMAIN cols : i # j => cols[i].name # cols[j].name}

CastRequests == {None} \cup {Given(q) : q \in DistinctSeqs(CastNames, MaxReq)}

InitCast ==
    /\ model \in CastModels
    /\ hashOrder = <<>>
    /\ frame \in CastFrames
    /\ last = NoOp
    /\ table = TableClass("DataFrame", SomeModel(model))

Cast(strict, columns) ==
    \E r \in {IF table.bound THEN cast(table.model, frame, strict, columns)
              ELSE OpResult(AttributeError, frame, <<>>)} :
       /\ table.kind = "DataFrame"
       /\ last' = [op |-> "cast", columns |-> columns, strict |-> strict, input |-> frame,
                   status |-> r.status, output |-> r.cols, plan |-> r.plan,
                   message |-> IF table.bound THEN Unnamed ELSE NoAttribute(lazy(table))]
       /\ frame' = IF r.status = "ok" THEN r.cols ELSE frame
       /\ table' = IF r.status = "ok" THEN collect_class(lazy(table)) ELSE table
       /\ UNCHANGED <<model, hashOrder>>

NextCast == \E strict \in BOOLEAN, columns \in CastRequests : Cast(strict, columns)

SpecCast == InitCast /\ [][NextCast]_vars

(***************************************************************************)
(* Claims about cast()                                                     *)
(***************************************************************************)
CastOk == last.op = "cast" /\ last.status = "ok"

\* The columns a cast(columns=...) call names: every column when none is given.
Targeted == IF last.columns.given THEN Range(last.columns.list)
            ELSE Range(columns_of(last.input))

\* C10: a targeted column of a field gets the field's dtype override if it has
\* one; else keeps its dtype when strict is false and the dtype is valid for
\* the field; else gets the field's default dtype.  So cast(strict=True) over
\* all columns leaves every column of a field with the declared dtype.
C10_CastPolicy ==
    CastOk =>
        /\ \A i \in DOMAIN last.input :
             LET c == last.input[i]
                 f == column_infos(model, c.name)
             IN (c.name \in Targeted /\ IsField(model, c.name)) =>
                   /\ HasCol(last.output, c.name)
                   /\ IF f.props_dtype # ""
                      THEN ColAt(last.output, c.name).dtype = f.props_dtype
                      ELSE IF ~last.strict /\ c.dtype \in f.valid_dtypes
                      THEN ColAt(last.output, c.name) = c
                      ELSE ColAt(last.output, c.name).dtype = f.dtype
        /\ (last.strict /\ ~last.columns.given) =>
               \A i \in DOMAIN last.output :
                   IsField(model, last.output[i].name) =>
                       last.output[i].dtype = dtypes(model, last.output[i].name)

\* Product on name = "apple", cent_price = "8": cent_price is UInt16 and 8.
C10_Witness ==
    /\ CastOk /\ model = Product /\ ~last.strict /\ ~last.columns.given
    /\ columns_of(last.input) = <<"name", "cent_price">>
    /\ \A i \in Rows : /\ ColAt(last.input, "name").vals[i] = StrV("apple")
                       /\ ColAt(last.input, "cent_price").vals[i] = StrV("8")
                       /\ ColAt(last.output, "cent_price").vals[i] = IntV(8)
                       /\ ColAt(last.output, "name").vals[i] = StrV("apple")
    /\ ColAt(last.output, "cent_price").dtype = "UInt16"
    /\ ColAt(last.output, "name").dtype = "String"

\* The columns a cast(columns=...) call was handed: the list itself, the empty
\* one included; every column when no list was given.
Supplied == IF last.columns.given THEN Range(last.columns.list)
            ELSE Range(columns_of(last.input))

\* C11: cast(strict, columns) keeps the column names, their order and the row
\* count of the input, and returns with the dtype and values of the input
\* every column that is not in the supplied list (the empty list included) or
\* is not a field of the model.
C11_UntargetedUntouched ==
    CastOk =>
        /\ columns_of(last.output) = columns_of(last.input)
        /\ \A i \in DOMAIN last.input :
             /\ Len(last.output[i].vals) = Len(last.input[i].vals)
             /\ (last.input[i].name \notin Supplied \/ ~IsField(model, last.input[i].name))
                   => last.output[i] = last.input[i]

(***************************************************************************)
(* DataFrame.get                                                           *)
(***************************************************************************)
height(cols) == IF cols = <<>> THEN 0 ELSE Len(cols[1].vals)

\* self.__class__.__name__: "DataFrame", or the model's title and "DataFrame".
class_name(t) == [kind |-> t.kind, model |-> model_of(t)]

NoPredicate == [given |-> FALSE, col |-> "", val |-> 0]

\* pl.col(col) == val
Equals(col, val) == [given |-> TRUE, col |-> col, val |-> val]

\* df.filter(predicate): the rows where the predicate is true, in order; a
\* comparison with a null cell is not true.
filter(cols, predicate) ==
    IF ~HasCol(cols, predicate.col) THEN [err |-> "ColumnNotFoundError", cols |-> cols]
    ELSE LET keep == SelectSeq([i \in 1..height(cols) |-> i],
                               LAMBDA i : ColAt(cols, predicate.col).vals[i] = IntV(predicate.val))
         IN [err |-> "none",
             cols |-> [c \in DOMAIN cols |->
                         Column(cols[c].name, cols[c].dtype,
                                [k \in DOMAIN keep |-> cols[c].vals[keep[k]]])]]

\* A field annotated typing.Any, required.
AnyField(name) == Field(name, "Any", {"Any"})

\* DataFrame._pydantic_model(): one field of type Any per column.
_pydantic_model(cols) == [i \in DOMAIN cols |-> AnyField(cols[i].name)]

\* model.from_row(row): the record of model m whose fields hold the values of
\* the one row.
from_row(m, row) ==
    [model |-> m, values |-> [n \in Range(props(m)) |-> ColAt(row, n).vals[1]]]

NoRecord == [model |-> <<>>, values |-> <<>>]

NoMessage == [owner |-> "", rows |-> 0]

\* f"{self.__class__.__name__}.get() yielded {row.height} rows."
Yielded(t, n) == [owner |-> class_name(t), rows |-> n]

GetResult(status, message, record) == [status |-> status, message |-> message, record |-> record]

\* The branch get() takes that lets a single matching row pass as several.
get_outcome_off_by_one(n) ==
    IF n = 0 THEN "RowDoesNotExist" ELSE IF n >= 1 THEN "MultipleRowsReturned" ELSE "ok"

\* if row.height == 0: raise ...; if row.height > 1: raise ...
get_outcome(n) ==
    IF n = 0 THEN "RowDoesNotExist" ELSE IF n > 1 THEN "MultipleRowsReturned" ELSE "ok"

get(t, cols, predicate) ==
    LET f == IF ~predicate.given THEN [err |-> "none", cols |-> cols]
             ELSE filter(cols, predicate)
        row == f.cols
        outcome == get_outcome(height(row))
    IN IF f.err # "none" THEN GetResult(f.err, NoMessage, NoRecord)
       ELSE IF outcome # "ok" THEN GetResult(outcome, Yielded(t, height(row)), NoRecord)
       ELSE IF t.bound THEN GetResult("ok", NoMessage, from_row(t.model, row))
       ELSE GetResult("ok", NoMessage, from_row(_pydantic_model(cols), row))

\* patito.exceptions: the class an exception of get() derives from.
base_class(exception) ==
    IF exception \in {"RowDoesNotExist", "MultipleRowsReturned"} THEN "RuntimeError"
    ELSE "Exception"

(***************************************************************************)
(* Inputs of the get() specification                                       *)
(***************************************************************************)
\* class Product(pt.Model): product_id: int; price: int
PricedProduct == <<IntField("product_id"), IntField("price")>>

GetHeights == 0..(NRows + 1)

\* pt.DataFrame({"product_id": [1, 2, 3], "price": [10, 10, 20]}), cut to h
\* rows; with_null: the price of the first row is missing.
GetVals(name, h, with_null) ==
    [i \in 1..h |->
        IF name = "product_id" THEN IntV(i)
        ELSE IF with_null /\ i = 1 THEN Null
        ELSE IF i < 3 THEN IntV(10) ELSE IntV(10 * (i - 1))]

GetFrames ==
    {[i \in DOMAIN q |-> Column(q[i], "Int64", GetVals(q[i], h, with_null))] :
        q \in {<<"product_id", "price">>, <<"price", "product_id">>},
        h \in GetHeights, with_null \in BOOLEAN}

GetPredicates ==
    {NoPredicate} \cup {Equals(c, v) : c \in {"product_id", "price", "x"}, v \in {0, 1, 2, 10, 20}}

InitGet ==
    /\ model = PricedProduct
    /\ hashOrder = <<>>
    /\ frame \in GetFrames
    /\ last = NoOp
    /\ table \in {TableClass("DataFrame", SomeModel(model)), TableClass("DataFrame", NoModel)}

\* DataFrame.get(predicate)
Get(predicate) ==
    LET r == get(table, frame, predicate)
    IN /\ table.kind = "DataFrame"
       /\ last' = [op |-> "get", predicate |-> predicate, input |-> frame,
                   status |-> r.status, message |-> r.message, record |-> r.record]
       /\ UNCHANGED <<model, hashOrder, frame, table>>

NextGet == \E predicate \in GetPredicates : Get(predicate)

SpecGet == InitGet /\ [][NextGet]_vars

(***************************************************************************)
(* Claims about get()                                                      *)
(***************************************************************************)
\* The rows of cols that satisfy the predicate: every row when there is none.
Matching(cols, predicate) ==
    {i \in 1..height(cols) :
        predicate.given => ColAt(cols, predicate.col).vals[i] = IntV(predicate.val)}

\* C12: with N the number of rows that satisfy the predicate (all rows when
\* none is given), get() raises RowDoesNotExist when N = 0, raises
\* MultipleRowsReturned with N in its message when N > 1, and when N = 1
\* returns a record holding that row's values, of the bound model if there is
\* one and else of a model with one Any field per column; both errors derive
\* from RuntimeError, and the table is as it was.
C12_GetOutcomes ==
    (last.op = "get" /\ (last.predicate.given => HasCol(last.input, last.predicate.col)))
    => LET rows == Matching(last.input, last.predicate)
           N == Cardinality(rows)
       IN /\ frame = last.input
          /\ N = 0 => /\ last.status = "RowDoesNotExist"
                      /\ base_class(last.status) = "RuntimeError"
          /\ N > 1 => /\ last.status = "MultipleRowsReturned"
                      /\ last.message.rows = N
                      /\ base_class(last.status) = "RuntimeError"
          /\ N = 1 => /\ last.status = "ok"
                      /\ last.record.model =
                            IF table.bound THEN table.model
                            ELSE [i \in DOMAIN last.input |->
                                     Field(last.input[i].name, "Any", {"Any"})]
                      /\ \A i \in DOMAIN last.input :
                            last.record.values[last.input[i].name] =
                                last.input[i].vals[CHOOSE k \in rows : TRUE]
          /\ last.status \in {"ok", "RowDoesNotExist", "MultipleRowsReturned"}

\* get(pl.col("product_id") == 2) on three rows with a bound model returned the
\* record of the second row.
C12_Witness ==
    /\ last.op = "get" /\ last.status = "ok" /\ table.bound
    /\ last.predicate = Equals("product_id", 2)
    /\ height(last.input) = 3
    /\ last.record.model = PricedProduct
    /\ last.record.values["product_id"] = IntV(2)
    /\ last.record.values["price"] = IntV(10)

(***************************************************************************)
(* DataFrame.fill_null(strategy="defaults")                                *)
(***************************************************************************)
\* name: type = default
Defaulted(f, v) == [f EXCEPT !.default = v]

\* model.defaults: the fields that declare a default, in declaration order.
defaults(m) == SelectSeq(m, LAMBDA f : f.default # NoDefault)

\* pl.lit(value, dtype), over h rows
pl_lit(value, dtype, h) == ExprOk(dtype, [i \in 1..h |-> CastVal(value, dtype)])

\* pl.Series(name, [value], dtype): one row
pl_Series(value, dtype) == ExprOk(dtype, <<CastVal(value, dtype)>>)

\* The expression fill_null() builds for one field with a default.
fill_expr(cols, f) ==
    NamedExpr(f.name,
              IF HasCol(cols, f.name)
              THEN fill_null(pl_col(cols, f.name), pl_lit(f.default, f.dtype, height(cols)))
              ELSE pl_Series(f.default, f.dtype))

\* polars fits a new column to the frame: a column of the frame's height is
\* taken as it is; a one-row column is repeated over a frame of several rows;
\* a frame without columns takes the height of the new column; on a frame of
\* columns without rows the polars build either empties the one-row column
\* (broadcasts_empty) or refuses it.
fit(cols, vals, broadcasts_empty) ==
    IF Len(vals) = height(cols) \/ cols = <<>> THEN [err |-> "none", vals |-> vals]
    ELSE IF Len(vals) = 1 /\ height(cols) > 1
         THEN [err |-> "none", vals |-> [i \in 1..height(cols) |-> vals[1]]]
    ELSE IF Len(vals) = 1 /\ height(cols) = 0 /\ broadcasts_empty
         THEN [err |-> "none", vals |-> <<>>]
    ELSE [err |-> "ShapeError", vals |-> vals]

\* DataFrame.with_columns(exprs) for expressions of one row or of the frame's
\* height: existing columns are replaced in place, new ones appended.
with_columns_fitted(cols, exprs, broadcasts_empty) ==
    LET fitted == [i \in DOMAIN exprs |->
                      NamedExpr(exprs[i].name,
                                LET f == fit(cols, exprs[i].e.vals, broadcasts_empty)
                                IN IF exprs[i].e.err # "none" THEN exprs[i].e
                                   ELSE IF f.err # "none" THEN ExprErr(f.err)
                                   ELSE ExprOk(exprs[i].e.dtype, f.vals))]
    IN with_columns_exprs(LF(cols), fitted)

\* DataFrame.fill_null(strategy="defaults")
DataFrame_fill_null(m, cols, broadcasts_empty) ==
    LET exprs == [i \in DOMAIN defaults(m) |-> fill_expr(cols, defaults(m)[i])]
    IN collect(with_columns_fitted(cols, exprs, broadcasts_empty), <<>>)

(***************************************************************************)
(* Inputs of the fill_null() specification                                 *)
(***************************************************************************)
\* class Product(pt.Model): name: str
\*                          price: int = 19
DefaultPrice == <<StrField("name"), Defaulted(IntField("price"), IntV(19))>>

\* Every field with a default, one of them with a dtype of its own.
AllDefaults == <<Defaulted(Dtyped(IntField("price"), "UInt16"), IntV(19)),
                 Defaulted(StrField("name"), StrV("none"))>>

NoDefaults == <<StrField("name"), IntField("price")>>

FillModels == {DefaultPrice, AllDefaults, NoDefaults}

FillNames == {"name", "price", "x"}

FillHeights == 0..NRows

\* {"name": ["apple", "banana"], "price": [10, None]}; x = None, 2, ..
FillVals(name, h) ==
    [i \in 1..h |->
        IF name = "name" THEN (IF i = 1 THEN StrV("apple") ELSE StrV("banana"))
        ELSE IF name = "price" THEN (IF i = 2 THEN Null ELSE IntV(10 * i))
        ELSE IF i = 1 THEN Null ELSE IntV(i)]

\* The frames of model m: any columns in any order, the columns of fields with
\* the dtype the model declares.
FillFrames(m) ==
    {[i \in DOMAIN q |->
        Column(q[i], IF IsField(m, q[i]) THEN dtypes(m, q[i]) ELSE "Int64", FillVals(q[i], h))] :
        q \in DistinctSeqs(FillNames, Cardinality(FillNames)), h \in FillHeights}

InitFillNull ==
    /\ model \in FillModels
    /\ hashOrder = <<>>
    /\ frame \in FillFrames(model)
    /\ last = NoOp
    /\ table = TableClass("DataFrame", SomeModel(model))

\* DataFrame.fill_null(strategy="defaults"); broadcasts_empty: what the polars
\* build does with a one-row column on a frame without rows.
FillNull(broadcasts_empty) ==
    \E r \in {IF table.bound THEN DataFrame_fill_null(table.model, frame, broadcasts_empty)
              ELSE OpResult(AttributeError, frame, <<>>)} :
       /\ table.kind = "DataFrame"
       /\ last' = [op |-> "fill_null", columns |-> None, strict |-> FALSE, input |-> frame,
                   status |-> r.status, output |-> r.cols, plan |-> r.plan,
                   message |-> IF table.bound THEN Unnamed ELSE NoAttribute(table)]
       /\ frame' = IF r.status = "ok" THEN r.cols ELSE frame
       /\ table' = IF r.status = "ok" THEN _construct_dataframe_model_class(table.model)
                   ELSE table
       /\ UNCHANGED <<model, hashOrder>>

NextFillNull == \E broadcasts_empty \in BOOLEAN : FillNull(broadcasts_empty)

SpecFillNull == InitFillNull /\ [][NextFillNull]_vars

(***************************************************************************)
(* Claims about fill_null()                                                *)
(***************************************************************************)
\* C13: fill_null(strategy="defaults") on a table of any row count succeeds;
\* every field with a default has its column in the output, of the declared
\* dtype and of the input's row count, where non-null rows keep their value
\* and null rows, or every row of a column the input did not have, hold the
\* default; every other column of the input is unchanged.
C13_FillDefaults ==
    last.op = "fill_null" =>
        /\ last.status = "ok"
        /\ \A j \in DOMAIN model :
             model[j].default # NoDefault =>
                /\ HasCol(last.output, model[j].name)
                /\ LET out == ColAt(last.output, model[j].name)
                       d == CastVal(model[j].default, model[j].dtype)
                   IN /\ out.dtype = model[j].dtype
                      /\ Len(out.vals) = height(last.input)
                      /\ \A i \in DOMAIN out.vals :
                            out.vals[i] =
                                IF HasCol(last.input, model[j].name)
                                   /\ ColAt(last.input, model[j].name).vals[i] # Null
                                THEN ColAt(last.input, model[j].name).vals[i]
                                ELSE d
        /\ \A i \in DOMAIN last.input :
             (~IsField(model, last.input[i].name)
              \/ column_infos(model, last.input[i].name).default = NoDefault)
             => /\ HasCol(last.output, last.input[i].name)
                /\ ColAt(last.output, last.input[i].name) = last.input[i]

(***************************************************************************)
(* The operations of LazyFrame: they extend the plan and collect nothing.  *)
(* collect_schema() resolves the schema of the plan and raises the schema  *)
(* error the plan holds, if any.                                           *)
(***************************************************************************)
LazyResult(raised, df) == [raised |-> raised, df |-> df]

collect_schema(df) == IF df.err \in SchemaErrors THEN df.err ELSE "none"

\* LazyFrame.derive(columns)
LazyFrame_derive(m, df, columns, iter_order) ==
    LET original_columns == Range(columns_of(df.cols))
        to_derive == to_derive_of(m, columns)
        r == derive_loop(m, df, to_derive, 1, <<>>)
    IN IF collect_schema(df) # "none" THEN LazyResult(collect_schema(df), df)
       ELSE IF r.raised # "none" THEN LazyResult(r.raised, df)
       ELSE LazyResult("none", select(r.df, out_cols(m, original_columns, to_derive, iter_order)))

\* LazyFrame.unalias()
LazyFrame_unalias(m, df) ==
    LET r == unalias_loop(m, df.cols, 1, <<>>)
    IN IF ~any_validation_alias(m) THEN LazyResult("none", df)
       ELSE IF collect_schema(df) # "none" THEN LazyResult(collect_schema(df), df)
       ELSE IF r.raised # "none" THEN LazyResult(r.raised, df)
       ELSE LazyResult("none", select_exprs(df, r.exprs))

\* LazyFrame.cast(strict, columns)
LazyFrame_cast(m, df, strict, columns) ==
    LET cols == df.cols
        names == IF columns.given /\ columns.list # <<>>
                 THEN Range(columns.list)
                 ELSE Range(columns_of(cols))
        exprs == [i \in DOMAIN cols |->
                    LET d == cast_decision(m, names, strict, cols[i].name, cols[i].dtype)
                    IN NamedExpr(cols[i].name,
                                 IF d.cast THEN pl_cast(pl_col(cols, cols[i].name), d.dtype)
                                 ELSE pl_col(cols, cols[i].name))]
    IN IF collect_schema(df) # "none" THEN LazyResult(collect_schema(df), df)
       ELSE LazyResult("none", with_columns_exprs(df, exprs))

\* model.validate(dataframe): every field has its column, of a valid dtype.
model_validate(m, cols) ==
    IF \A i \in DOMAIN m : /\ HasCol(cols, m[i].name)
                           /\ ColAt(cols, m[i].name).dtype \in m[i].valid_dtypes \cup {m[i].dtype}
    THEN "ok" ELSE "DataFrameValidationError"

\* DataFrame.validate(): the status and what the message names.
validate(t, cols) ==
    IF ~t.bound THEN [status |-> "TypeError", message |-> Message("validate", t.kind)]
    ELSE [status |-> model_validate(t.model, cols), message |-> Unnamed]

(***************************************************************************)
(* The table through any sequence of its operations                        *)
(***************************************************************************)
TableModels == {Foo, Direct, DefaultPrice, Product}

TableFrames ==
    {f \in DeriveFrames : Range(columns_of(f)) \subseteq {"foo", "x"}}
    \cup {f \in UnaliasFrames : Range(columns_of(f)) \subseteq {"val", "A"}}
    \cup {f \in CastFrames : Len(f) = 1 /\ f[1].name \in {"name", "cent_price"}}
    \cup {f \in FillFrames(DefaultPrice) : Range(columns_of(f)) = {"price"} /\ height(f) = NRows}

\* The iteration orders of a set of names that this interpreter run may have.
TableOrder == <<"foo", "bar", "double_bar", "x", "val", "A", "other", "name", "cent_price", "price">>

TableRequests == {None, Given(<<>>), Given(<<"bar">>), Given(<<"cent_price">>)}

InitTable ==
    /\ model \in TableModels
    /\ hashOrder \in {TableOrder, [i \in DOMAIN TableOrder |-> TableOrder[Len(TableOrder) + 1 - i]]}
    /\ frame \in TableFrames
    /\ last = NoOp
    /\ table \in {TableClass("DataFrame", SomeModel(model)), TableClass("DataFrame", NoModel)}

Done(op, input, status, output, message) ==
    [op |-> op, columns |-> None, strict |-> FALSE, input |-> input, status |-> status,
     output |-> output, plan |-> <<>>, message |-> message]

\* DataFrame.lazy()
Lazy ==
    /\ table.kind = "DataFrame"
    /\ table' = lazy(table)
    /\ last' = Done("lazy", frame, "ok", frame, Unnamed)
    /\ UNCHANGED <<model, hashOrder, frame>>

\* LazyFrame.collect(): raises the error of the plan, or returns the DataFrame.
Collect ==
    /\ table.kind = "LazyFrame"
    /\ table' = IF table.err = "none" THEN collect_class(table) ELSE table
    /\ last' = Done("collect", frame, IF table.err = "none" THEN "ok" ELSE table.err, frame,
                    Unnamed)
    /\ UNCHANGED <<model, hashOrder, frame>>

\* DataFrame.validate()
Validate ==
    LET r == validate(table, frame)
    IN /\ table.kind = "DataFrame"
       /\ last' = Done("validate", frame, r.status, frame, r.message)
       /\ UNCHANGED <<model, hashOrder, frame, table>>

\* A LazyFrame operation that returned or raised.
LazyStep(op, r) ==
    /\ table.kind = "LazyFrame"
    /\ last' = Done(op, frame, IF r.raised = "none" THEN "ok" ELSE r.raised,
                    IF r.raised = "none" THEN r.df.cols ELSE frame,
                    IF table.bound THEN Unnamed ELSE NoAttribute(table))
    /\ frame' = IF r.raised = "none" THEN r.df.cols ELSE frame
    /\ table' = IF r.raised = "none" THEN [table EXCEPT !.err = r.df.err] ELSE table
    /\ UNCHANGED <<model, hashOrder>>

Plan == [cols |-> frame, err |-> table.err]

LazyDerive(columns) ==
    LazyStep("derive",
             IF table.bound THEN LazyFrame_derive(table.model, Plan, columns, hashOrder)
             ELSE LazyResult(AttributeError, Plan))

LazyUnalias ==
    LazyStep("unalias",
             IF table.bound THEN LazyFrame_unalias(table.model, Plan)
             ELSE LazyResult(AttributeError, Plan))

LazyCast(strict, columns) ==
    LazyStep("cast",
             IF table.bound THEN LazyFrame_cast(table.model, Plan, strict, columns)
             ELSE LazyResult(AttributeError, Plan))

NextTable ==
    \/ Lazy
    \/ Collect
    \/ Validate
    \/ \E columns \in TableRequests : Derive(columns)
    \/ Unalias
    \/ \E strict \in BOOLEAN, columns \in TableRequests : Cast(strict, columns)
    \/ \E broadcasts_empty \in BOOLEAN : FillNull(broadcasts_empty)
    \/ \E columns \in TableRequests : LazyDerive(columns)
    \/ LazyUnalias
    \/ \E strict \in BOOLEAN, columns \in TableRequests : LazyCast(strict, columns)

SpecTable == InitTable /\ [][NextTable]_vars

(***************************************************************************)
(* Claims about the schema binding                                         *)
(***************************************************************************)
BindingOperations == {"validate", "derive", "unalias", "cast", "fill_null"}

\* C14: validate, derive, unalias, cast and fill_null(strategy="defaults") on
\* a table without a model fail with a schema-binding error (the TypeError of
\* validate) whose message names the operation and the class of the table,
\* and leave the table as it was.
C14_UnboundFailsNamed ==
    (last.op \in BindingOperations /\ ~table.bound)
    => /\ last.status = "TypeError"
       /\ last.message = Message(last.op, table.kind)
       /\ frame = last.input

\* C18: lazy(), collect(), derive(), unalias(), cast() and fill_null() return a
\* table with the model of the table they were called on, and a table without
\* a model stays without one.
C18_BindingKept ==
    [][table'.bound = table.bound /\ table'.model = table.model]_vars

\* A table with its model after lazy(), a derivation of bar and collect().
C18_Witness ==
    /\ last.op = "collect" /\ last.status = "ok"
    /\ table.kind = "DataFrame" /\ table.bound /\ table.model = model
    /\ model = Foo /\ HasCol(frame, "bar")

====
